---- MODULE Spec2Model ----
(***************************************************************************)
(* Model of the byte ring buffer of ring_buffer.c / ring_buffer.h: one     *)
(* t_rb instance, the heap region its buffer field points to, and a caller *)
(* that calls rb_init, rb_push, rb_pop and rb_clean in any order.          *)
(***************************************************************************)
EXTENDS Integers, Sequences, FiniteSets

(* ------------------------------ bounds --------------------------------- *)

\* largest size passed to rb_init
MaxCap == 4
\* bytes pushed are drawn from 0..MaxByte (a sample of uint8_t)
MaxByte == 1
\* successful pushes recorded per rb_init
MaxPushes == 5
\* successful malloc calls in one behaviour
MaxAllocs == 2
\* consecutive rb_clean calls that are told apart
MaxCleans == 2

(* ------------------------- values of the fields ------------------------ *)

\* the null pointer
NULL == 0
\* an indeterminate non-null pointer (the buffer field before rb_init)
Wild == -1
\* the content of a malloc'ed byte that was never written
Undef == -1

Byte == 0..MaxByte
Sizes == 0..MaxCap

VARIABLES
    buffer,     \* c->buffer: NULL, Wild, or the id of a region malloc returned
    head,       \* c->head
    tail,       \* c->tail
    maxlen,     \* c->maxlen
    storage,    \* the bytes of the region c->buffer points to, indexed from 0
    nalloc,     \* regions malloc has handed out so far: ids 1..nalloc
    frees,      \* the pointers passed to free(), in call order
    data,       \* the caller's output byte (uint8_t data in main)
    op,         \* the last call made: "none", "init", "push", "pop", "clean"
    ret,        \* what the last rb_push / rb_pop returned
    phase,      \* "Uninit", "Ready" (after rb_init), "Released" (after rb_clean)
    pushed,     \* bytes accepted by successful rb_push calls since rb_init
    popped,     \* bytes yielded by successful rb_pop calls since rb_init
    fault,      \* an access or a free() hit something that is no live region;
                \* what the program does after that is undefined, so a
                \* behaviour ends at its first fault
    run,        \* successful pushes since the last rb_pop call or rb_init
    runEmpty,   \* head = tail held when that run began
    dk,         \* pushes of the push-then-drain pattern in progress, -1: none
    dj,         \* pops of that pattern so far
    cleans,     \* rb_clean calls since the last other call (up to MaxCleans)
    loop,       \* the caller's drain loop (main, lines 15-16): its mode
                \* ("free": not in the loop, "drain", "done"), the number n
                \* of bytes stored on entry, and its successful pops so far
    thr         \* per thread of control inside rb_push / rb_pop: the line
                \* it is at (pc) and its locals; all "idle" when calls are
                \* made one at a time

vars == <<buffer, head, tail, maxlen, storage, nalloc, frees, data,
          op, ret, phase, pushed, popped, fault, run, runEmpty, dk, dj,
          cleans, loop, thr>>

(* ------------------------------ helpers -------------------------------- *)

Range(s) == {s[i] : i \in DOMAIN s}

\* a region of n bytes as malloc returns it
Region(n) == [i \in 0..(n - 1) |-> Undef]

\* p points to a region that was allocated and not freed
Live(p) == p \in 1..nalloc /\ p \notin Range(frees)

\* c->buffer[i] is inside a live region
ValidAt(i) == Live(buffer) /\ i \in DOMAIN storage

(* ------------------------------ rb_push -------------------------------- *)

push_next_nowrap(h, n) == h + 1

push_next_eq(h, n) == IF h + 1 = n THEN 0 ELSE h + 1

\* next = c->head + 1; if (next >= c->maxlen) next = 0;
push_next(h, n) == IF h + 1 >= n THEN 0 ELSE h + 1

push_ret_neverfull(next) == 0

\* if (next == c->tail) return (-1); ... return (0);
push_ret(next) == IF next = tail THEN -1 ELSE 0

push_store_early(r, d) ==
    IF ValidAt(head) THEN [storage EXCEPT ![head] = d] ELSE storage

push_store_atnext(r, d) ==
    LET n == IF head + 1 >= maxlen THEN 0 ELSE head + 1 IN
    IF r = 0 /\ ValidAt(n) THEN [storage EXCEPT ![n] = d] ELSE storage

\* c->buffer[c->head] = data;   (reached only when the call returns 0)
push_store(r, d) ==
    IF r = 0 /\ ValidAt(head) THEN [storage EXCEPT ![head] = d] ELSE storage

push_head_early(r, next) == next

push_head_reread(r, next) ==
    IF r = 0 THEN (IF head + 1 >= maxlen THEN 0 ELSE head + 1) ELSE head

\* c->head = next;              (reached only when the call returns 0)
push_head(r, next) == IF r = 0 THEN next ELSE head

(* ------------------------------- rb_pop -------------------------------- *)

pop_ret_never(h, t) == 0

pop_ret_le(h, t) == IF h <= t THEN -1 ELSE 0

\* if (c->head == c->tail) return (-1); ... return (0);
pop_ret(h, t) == IF h = t THEN -1 ELSE 0

pop_next_nowrap(t, n) == t + 1

\* next = c->tail + 1; if (next >= c->maxlen) next = 0;
pop_next(t, n) == IF t + 1 >= n THEN 0 ELSE t + 1

pop_load_newest(r) ==
    IF r # 0 THEN {data}
    ELSE IF ValidAt(head) /\ storage[head] # Undef THEN {storage[head]}
    ELSE Byte

\* *data = c->buffer[c->tail];  the values the read can produce: the stored
\* byte, or any byte when the slot is unwritten or outside a live region
pop_load(r) ==
    IF r # 0 THEN {data}
    ELSE IF ValidAt(tail) /\ storage[tail] # Undef THEN {storage[tail]}
    ELSE Byte

pop_tail_early(r, next) == next

pop_tail_stuck(r, next) == tail

\* c->tail = next;              (reached only when the call returns 0)
pop_tail(r, next) == IF r = 0 THEN next ELSE tail

pop_order_swapped(pc) ==
    IF pc = "c21" THEN "c27" ELSE IF pc = "c27" THEN "c26" ELSE "idle"

\* the order of rb_pop's statements after the empty test: line 26 (the
\* load), then line 27 (the store to c->tail), then the return
pop_order(pc) ==
    IF pc = "c21" THEN "c26" ELSE IF pc = "c26" THEN "c27" ELSE "idle"

pop_keep_clear(r) ==
    IF r = 0 /\ ValidAt(tail) THEN [storage EXCEPT ![tail] = 0] ELSE storage

\* rb_pop has no store into c->buffer: the popped slot keeps its byte
pop_keep(r) == storage

(* --------------------- bookkeeping for the properties ------------------ *)

\* the push-then-drain pattern restarts from a state with head = tail once
\* the previous one is over (a push after a pop, or a pop after the k+1-th)
DrainBase(isPush) ==
    IF dk = -1 \/ dj > dk \/ (isPush /\ dj > 0)
    THEN IF head = tail THEN <<0, 0>> ELSE <<-1, 0>>
    ELSE <<dk, dj>>

DrainAfter(isPush, r) ==
    LET b == DrainBase(isPush) IN
    IF b[1] = -1 THEN b
    ELSE IF isPush THEN <<b[1] + (IF r = 0 THEN 1 ELSE 0), 0>>
    ELSE <<b[1], b[2] + 1>>

\* rb_init has run and rb_clean has not run since
Ready == phase = "Ready"

\* successful pushes minus successful pops since rb_init
Count == Len(pushed) - Len(popped)

\* the caller is not in its drain loop
LoopFree == [mode |-> "free", n |-> 0, pops |-> 0]

Threads == {1, 2}

\* a thread that is inside no call
IdleThread == [pc |-> "idle", h |-> 0, t |-> 0, next |-> 0, d |-> 0,
               idx |-> 0, stale |-> FALSE, ret |-> 0, called |-> FALSE]

AllIdle == [t \in Threads |-> IdleThread]

(* ------------------------------- actions ------------------------------- *)

\* t_rb rb; uint8_t data;  -- every field is indeterminate
Init ==
    /\ buffer \in {NULL, Wild}
    /\ head \in Sizes
    /\ tail \in Sizes
    /\ maxlen \in Sizes
    /\ storage = Region(0)
    /\ nalloc = 0
    /\ frees = <<>>
    /\ data \in Byte
    /\ op = "none"
    /\ ret = 0
    /\ phase = "Uninit"
    /\ pushed = <<>>
    /\ popped = <<>>
    /\ fault = FALSE
    /\ run = 0
    /\ runEmpty = FALSE
    /\ dk = -1
    /\ dj = 0
    /\ cleans = 0
    /\ loop = LoopFree
    /\ thr = AllIdle

rb_push(d) ==
    LET next == push_next(head, maxlen)
        r == push_ret(next)
    IN
    /\ ~fault
    /\ r = 0 => Len(pushed) < MaxPushes
    /\ storage' = push_store(r, d)
    /\ head' = push_head(r, next)
    /\ UNCHANGED <<buffer, tail, maxlen, nalloc, frees, data, phase, popped,
                   runEmpty>>
    /\ op' = "push"
    /\ ret' = r
    /\ pushed' = IF r = 0 THEN Append(pushed, d) ELSE pushed
    /\ fault' = (fault \/ (r = 0 /\ ~ValidAt(head)))
    /\ run' = IF r = 0 THEN run + 1 ELSE run
    /\ dk' = DrainAfter(TRUE, r)[1]
    /\ dj' = DrainAfter(TRUE, r)[2]
    /\ cleans' = 0

rb_pop ==
    LET r == pop_ret(head, tail)
        next == pop_next(tail, maxlen)
    IN
    /\ ~fault
    /\ r = 0 => Len(popped) < MaxPushes
    /\ data' \in pop_load(r)
    /\ tail' = pop_tail(r, next)
    /\ storage' = pop_keep(r)
    /\ UNCHANGED <<buffer, head, maxlen, nalloc, frees, phase, pushed>>
    /\ op' = "pop"
    /\ ret' = r
    /\ popped' = IF r = 0 THEN Append(popped, data') ELSE popped
    /\ fault' = (fault \/ (r = 0 /\ ~ValidAt(tail)))
    /\ run' = 0
    /\ runEmpty' = (head' = tail')
    /\ dk' = DrainAfter(FALSE, r)[1]
    /\ dj' = DrainAfter(FALSE, r)[2]
    /\ cleans' = 0

\* malloc(size * sizeof(uint8_t)) when it succeeds
init_region(size) == Region(size)

init_maxlen_keep(size) == maxlen

\* c->maxlen = size;
init_maxlen(size) == size

rb_init(size, ok) ==
    /\ ~fault
    /\ ok => nalloc < MaxAllocs
    /\ head' = 0
    /\ tail' = 0
    /\ maxlen' = init_maxlen(size)
    /\ buffer' = IF ok THEN nalloc + 1 ELSE NULL
    /\ nalloc' = IF ok THEN nalloc + 1 ELSE nalloc
    /\ storage' = IF ok THEN init_region(size) ELSE Region(0)
    /\ UNCHANGED <<frees, data, fault>>
    /\ op' = "init"
    /\ ret' = 0
    /\ phase' = "Ready"
    /\ pushed' = <<>>
    /\ popped' = <<>>
    /\ run' = 0
    /\ runEmpty' = TRUE
    /\ dk' = 0
    /\ dj' = 0
    /\ cleans' = 0

\* if (c->buffer) free(c->buffer);
clean_free(p) == IF p # NULL THEN Append(frees, p) ELSE frees

clean_buffer_keep(p) == p

\* c->buffer = NULL;
clean_buffer(p) == NULL

rb_clean ==
    /\ ~fault
    /\ frees' = clean_free(buffer)
    /\ buffer' = clean_buffer(buffer)
    /\ head' = 0
    /\ tail' = 0
    /\ maxlen' = 0
    /\ storage' = Region(0)
    /\ UNCHANGED <<nalloc, data>>
    /\ fault' = (frees' # frees /\ ~Live(buffer))
    /\ op' = "clean"
    /\ ret' = 0
    /\ phase' = "Released"
    /\ pushed' = <<>>
    /\ popped' = <<>>
    /\ run' = 0
    /\ runEmpty' = TRUE
    /\ dk' = -1
    /\ dj' = 0
    /\ cleans' = IF cleans < MaxCleans THEN cleans + 1 ELSE cleans

Push == (\E d \in Byte : rb_push(d)) /\ UNCHANGED <<loop, thr>>
Pop == rb_pop /\ UNCHANGED <<loop, thr>>
Initialize ==
    (\E size \in Sizes, ok \in BOOLEAN : rb_init(size, ok))
    /\ UNCHANGED <<loop, thr>>
Release == rb_clean /\ UNCHANGED <<loop, thr>>

Next == Push \/ Pop \/ Initialize \/ Release

Spec == Init /\ [][Next]_vars

\* the state rb_init(size) leaves on a new instance when malloc succeeds
FreshReady(size) ==
    /\ buffer = 1
    /\ head = 0
    /\ tail = 0
    /\ maxlen = init_maxlen(size)
    /\ storage = init_region(size)
    /\ nalloc = 1
    /\ frees = <<>>
    /\ data \in Byte
    /\ op = "init"
    /\ ret = 0
    /\ phase = "Ready"
    /\ pushed = <<>>
    /\ popped = <<>>
    /\ fault = FALSE
    /\ run = 0
    /\ runEmpty = TRUE
    /\ dk = 0
    /\ dj = 0
    /\ cleans = 0
    /\ loop = LoopFree
    /\ thr = AllIdle

(* ---------------------- the caller's drain loop ------------------------ *)

\* main after rb_init(&rb, size)
DrainInit == \E size \in Sizes : FreshReady(size)

\* main reaches `while (rb_pop(&rb, &data) != -1)` with n bytes stored
drain_enter ==
    /\ loop.mode = "free"
    /\ Ready /\ ~fault
    /\ loop' = [mode |-> "drain", n |-> Count, pops |-> 0]
    /\ UNCHANGED <<buffer, head, tail, maxlen, storage, nalloc, frees, data,
                   op, ret, phase, pushed, popped, fault, run, runEmpty,
                   dk, dj, cleans, thr>>

\* one iteration: rb_pop, and the loop ends when it returns -1
drain_pop ==
    /\ loop.mode = "drain"
    /\ rb_pop
    /\ loop' = IF ret' = -1
               THEN [loop EXCEPT !.mode = "done"]
               ELSE [loop EXCEPT !.pops = loop.pops + 1]
    /\ UNCHANGED thr

\* pushes and pops in any order until the loop is entered, then the loop
\* alone
DrainNext ==
    \/ (loop.mode = "free" /\ (Push \/ Pop))
    \/ drain_enter
    \/ drain_pop

\* the loop is sequential code that keeps running: its next iteration is
\* always taken
SpecDrain == DrainInit /\ [][DrainNext]_vars /\ WF_vars(drain_pop)

(* ------------- rb_push and rb_pop one memory access at a time ---------- *)

\* the variables no step inside rb_push or rb_pop touches
callerVars == <<buffer, maxlen, nalloc, frees, op, ret, phase, run, runEmpty,
                dk, dj, cleans, loop>>

\* the capacities with at least one usable slot
Caps == {n \in Sizes : n >= 2}

\* line 7-9: next = c->head + 1 (one read of c->head), wrapped
t_push_read(t, d) ==
    /\ thr[t].pc = "idle"
    /\ ~fault
    /\ Len(pushed) < MaxPushes
    /\ thr' = [thr EXCEPT ![t] = [IdleThread EXCEPT
                  !.pc = "p10", !.h = head,
                  !.next = push_next(head, maxlen), !.d = d,
                  !.called = TRUE]]
    /\ UNCHANGED <<head, tail, storage, data, pushed, popped, fault>>
    /\ UNCHANGED callerVars

\* line 10-11: one read of c->tail; return (-1) when next equals it
t_push_check(t) ==
    /\ thr[t].pc = "p10"
    /\ LET r == push_ret(thr[t].next) IN
       thr' = [thr EXCEPT ![t].pc = IF r = 0 THEN "p12" ELSE "idle",
                          ![t].ret = r]
    /\ UNCHANGED <<head, tail, storage, data, pushed, popped, fault>>
    /\ UNCHANGED callerVars

\* line 12: c->buffer[c->head] = data; the index is c->head read again, or
\* the value read at line 7 when the build keeps it in a register
t_push_store(t) ==
    /\ thr[t].pc = "p12"
    /\ \E idx \in {head, thr[t].h} :
          /\ storage' = IF idx = head
                        THEN push_store(0, thr[t].d)
                        ELSE IF ValidAt(idx)
                             THEN [storage EXCEPT ![idx] = thr[t].d]
                             ELSE storage
          /\ fault' = (fault \/ ~ValidAt(idx))
          /\ thr' = [thr EXCEPT ![t].pc = "p13", ![t].idx = idx]
    /\ UNCHANGED <<head, tail, data, pushed, popped>>
    /\ UNCHANGED callerVars

\* line 13-14: c->head = next; return (0)
t_push_commit(t) ==
    /\ thr[t].pc = "p13"
    /\ head' = push_head(0, thr[t].next)
    /\ pushed' = Append(pushed, thr[t].d)
    /\ thr' = [thr EXCEPT ![t].pc = "idle", ![t].ret = 0,
                          ![t].stale = (head # thr[t].h)]
    /\ UNCHANGED <<tail, storage, data, popped, fault>>
    /\ UNCHANGED callerVars

\* line 21: the read of c->head
t_pop_read(t) ==
    /\ thr[t].pc = "idle"
    /\ ~fault
    /\ thr' = [thr EXCEPT ![t] = [IdleThread EXCEPT
                  !.pc = "c21", !.h = head, !.called = TRUE]]
    /\ UNCHANGED <<head, tail, storage, data, pushed, popped, fault>>
    /\ UNCHANGED callerVars

\* line 21-25: the read of c->tail, the empty test, next = c->tail + 1 wrapped
t_pop_check(t) ==
    /\ thr[t].pc = "c21"
    /\ LET r == pop_ret(thr[t].h, tail) IN
       thr' = [thr EXCEPT ![t].pc = IF r = 0 THEN pop_order("c21") ELSE "idle",
                          ![t].ret = r,
                          ![t].t = tail,
                          ![t].next = pop_next(tail, maxlen)]
    /\ UNCHANGED <<head, tail, storage, data, pushed, popped, fault>>
    /\ UNCHANGED callerVars

\* line 26: *data = c->buffer[c->tail]
t_pop_load(t) ==
    /\ thr[t].pc = "c26"
    /\ data' \in pop_load(0)
    /\ fault' = (fault \/ ~ValidAt(tail))
    /\ thr' = [thr EXCEPT ![t].pc = pop_order("c26"), ![t].idx = tail,
                          ![t].stale = ~(ValidAt(tail) /\ storage[tail] # Undef)]
    /\ UNCHANGED <<head, tail, storage, pushed, popped>>
    /\ UNCHANGED callerVars

\* line 27-28: c->tail = next; return (0)
t_pop_commit(t) ==
    /\ thr[t].pc = "c27"
    /\ tail' = pop_tail(0, thr[t].next)
    /\ popped' = Append(popped, data)
    /\ thr' = [thr EXCEPT ![t].pc = pop_order("c27")]
    /\ UNCHANGED <<head, storage, data, pushed, fault>>
    /\ UNCHANGED callerVars

\* an initialised buffer shared by the threads
SharedInit == \E size \in Caps : FreshReady(size)

\* two threads that each call rb_push once, with nothing to keep the two
\* calls apart
RacePush(t) ==
    \/ (~thr[t].called /\ \E d \in Byte : t_push_read(t, d))
    \/ t_push_check(t)
    \/ t_push_store(t)
    \/ t_push_commit(t)

RaceNext == \E t \in Threads : RacePush(t)

SpecRace == SharedInit /\ [][RaceNext]_vars

\* thread 1 only calls rb_push, thread 2 only calls rb_pop
Producer ==
    \/ \E d \in Byte : t_push_read(1, d)
    \/ t_push_check(1)
    \/ t_push_store(1)
    \/ t_push_commit(1)

Consumer ==
    \/ t_pop_read(2)
    \/ t_pop_check(2)
    \/ t_pop_load(2)
    \/ t_pop_commit(2)

SpscNext == Producer \/ Consumer

SpecSPSC == SharedInit /\ [][SpscNext]_vars

(* ------------------------------ properties ----------------------------- *)

\* the number of stored bytes as the cursors give it
CursorCount == (head - tail + maxlen) % maxlen

IsPrefix(s, t) == Len(s) <= Len(t) /\ \A i \in 1..Len(s) : s[i] = t[i]

\* C1 -- FIFO order: for a buffer whose rb_init allocated C >= 2 bytes, the
\* bytes yielded by the successful pops are, in order, a prefix of the bytes
\* accepted by the successful pushes, and the accepted bytes not yet popped
\* sit in storage from tail up to head (wrapping), in push order.
C1_FifoOrder ==
    (Ready /\ maxlen >= 2 /\ Live(buffer)) =>
        /\ IsPrefix(popped, pushed)
        /\ \A i \in 1..Count :
              /\ ((tail + i - 1) % maxlen) \in DOMAIN storage
              /\ storage[(tail + i - 1) % maxlen] = pushed[Len(popped) + i]

\* a pop has yielded a byte pushed after head wrapped, after tail wrapped too
C1_Witness ==
    /\ Ready /\ maxlen >= 2 /\ Live(buffer)
    /\ op = "pop" /\ ret = 0
    /\ Len(popped) > maxlen
    /\ popped[Len(popped)] # popped[1]
    /\ data = pushed[Len(popped)]

\* C2 -- capacity bound: in a buffer of capacity C >= 1 a run of pushes with
\* no pop in between holds at most C-1 successful pushes; when the run began
\* with the buffer empty, a push succeeds exactly while fewer than C-1 of the
\* run have succeeded (so the C-th returns -1).
C2_CapacityBound ==
    /\ []((Ready /\ maxlen >= 1) => run <= maxlen - 1)
    /\ [][(Ready /\ maxlen >= 1 /\ runEmpty /\ op' = "push" /\ phase' = "Ready")
            => (ret' = 0 <=> run < maxlen - 1)]_vars

\* the C-th push of a run that began at an empty buffer, after earlier pops,
\* has returned -1
C2_Witness ==
    /\ Ready /\ maxlen >= 3
    /\ runEmpty /\ run = maxlen - 1
    /\ op = "push" /\ ret = -1
    /\ Len(popped) > 0

\* C3 -- a push that returns -1 leaves buffer, head, tail, maxlen and every
\* byte of storage as they were.
C3_FailedPushNoMutation ==
    [][(op' = "push" /\ ret' = -1) =>
            UNCHANGED <<buffer, head, tail, maxlen, storage>>]_vars

\* a push on a full buffer of capacity >= 2 has returned -1
C3_Witness ==
    /\ Ready /\ maxlen >= 2 /\ Live(buffer)
    /\ op = "push" /\ ret = -1
    /\ Count = maxlen - 1

\* C4 -- a pop that returns -1 leaves the caller's byte, buffer, head, tail,
\* maxlen and storage as they were.
C4_FailedPopNoMutation ==
    [][(op' = "pop" /\ ret' = -1) =>
            UNCHANGED <<data, buffer, head, tail, maxlen, storage>>]_vars

\* a pop on a drained buffer has returned -1, the caller's byte still
\* holding the last byte popped
C4_Witness ==
    /\ Ready /\ maxlen >= 2 /\ Live(buffer)
    /\ op = "pop" /\ ret = -1
    /\ Len(popped) > 0 /\ data = popped[Len(popped)]
    /\ head = tail /\ head > 0

\* C5 -- cursor range: after rb_init with capacity C >= 1 and any pushes and
\* pops, 0 <= head < C and 0 <= tail < C.
C5_CursorRange ==
    (Ready /\ maxlen >= 1) =>
        /\ head \in 0..(maxlen - 1)
        /\ tail \in 0..(maxlen - 1)

\* head has wrapped back to 0 by a successful push
C5_Witness ==
    /\ Ready /\ maxlen >= 2
    /\ op = "push" /\ ret = 0
    /\ head = 0 /\ tail > 0
    /\ Len(pushed) >= maxlen

\* C6 -- occupancy: after rb_init with capacity C >= 1,
\* (head - tail + C) % C is the number of successful pushes minus the number
\* of successful pops, and lies in 0..C-1.
C6_Occupancy ==
    (Ready /\ maxlen >= 1) =>
        /\ (head - tail + maxlen) % maxlen = Count
        /\ Count \in 0..(maxlen - 1)

\* a full buffer whose head has wrapped below tail
C6_Witness ==
    /\ Ready /\ maxlen >= 3
    /\ head < tail
    /\ Count = maxlen - 1

\* C7 -- full/empty: after rb_init with capacity C >= 1, head = tail exactly
\* when no element is stored, a pop returns -1 exactly when no element is
\* stored, and a push returns -1 exactly when C-1 elements are stored, that
\* is when (head + 1) % C = tail.
C7_FullEmpty ==
    /\ []((Ready /\ maxlen >= 1) =>
            /\ (head = tail <=> Count = 0)
            /\ ((head + 1) % maxlen = tail <=> Count = maxlen - 1))
    /\ [][(Ready /\ maxlen >= 1 /\ phase' = "Ready") =>
            /\ (op' = "pop" => (ret' = -1 <=> Count = 0))
            /\ (op' = "push" => (ret' = -1 <=> Count = maxlen - 1))]_vars

\* with capacity 1 a push has returned -1 on the buffer that holds nothing
C7_Witness ==
    /\ Ready /\ maxlen = 1 /\ Live(buffer)
    /\ op = "push" /\ ret = -1
    /\ Count = 0 /\ head = tail

\* C8 -- empty after drain: with capacity C >= 2, after k successful pushes
\* from a state with head = tail followed by pops only, each of the first k
\* pops returns 0, head = tail after the k-th, and the k+1-th returns -1.
C8_EmptyAfterDrain ==
    (Ready /\ maxlen >= 2 /\ dk >= 0 /\ dj >= 1) =>
        /\ op = "pop"
        /\ dk <= maxlen - 1
        /\ (dj <= dk => ret = 0)
        /\ (dj = dk => head = tail)
        /\ (dj = dk + 1 => ret = -1 /\ head = tail)

\* C-1 pushes from an empty state away from index 0, C-1 pops, and the next
\* pop has returned -1
C8_Witness ==
    /\ Ready /\ maxlen >= 3
    /\ dk = maxlen - 1 /\ dj = dk + 1
    /\ op = "pop" /\ ret = -1
    /\ Len(popped) > dk

\* C9 -- idempotent release: rb_clean on a Ready instance passes the storage
\* (when rb_init obtained one) to free() once, that region was live, and
\* buffer = NULL, head = tail = maxlen = 0 afterwards; an rb_clean right
\* after an rb_clean frees nothing and changes no field.
C9_IdempotentRelease ==
    /\ [][(Ready /\ op' = "clean") =>
            /\ buffer' = NULL /\ head' = 0 /\ tail' = 0 /\ maxlen' = 0
            /\ (buffer # NULL => Live(buffer) /\ frees' = Append(frees, buffer))
            /\ (buffer = NULL => frees' = frees)
            /\ ~fault']_vars
    /\ [][(cleans >= 1 /\ cleans' > cleans) =>
            /\ UNCHANGED <<buffer, head, tail, maxlen, storage, frees>>
            /\ ~fault']_vars

\* rb_clean has run twice in a row on an instance that held a region, and
\* that region was freed once
C9_Witness ==
    /\ phase = "Released" /\ cleans = 2
    /\ nalloc = 1 /\ frees = <<1>>
    /\ buffer = NULL /\ ~fault

\* C10 -- rb_clean on an instance on which rb_init never ran passes nothing
\* to free().
C10_NoFreeWhenUninit ==
    [][(phase = "Uninit" /\ op' = "clean") => frees' = frees]_vars

\* C11 -- storage is released exactly once: no region is passed to free()
\* twice, and once rb_clean has run every region rb_init obtained has been
\* freed.
C11_ReleasedExactlyOnce ==
    /\ \A i, j \in DOMAIN frees : frees[i] = frees[j] => i = j
    /\ (phase = "Released" => \A p \in 1..nalloc : p \in Range(frees))

\* C12 -- failures are recoverable (capacity C >= 2): after a push returned
\* -1 a pop succeeds, and after a successful pop a push succeeds; after a pop
\* returned -1 a push succeeds, and the pop after a successful push succeeds,
\* yielding the byte just pushed when the buffer was empty before that push.
C12_Recoverable ==
    /\ []((Ready /\ maxlen >= 2 /\ op = "push" /\ ret = -1) => head # tail)
    /\ [][(Ready /\ maxlen >= 2 /\ phase' = "Ready") =>
            /\ (op = "push" /\ ret = -1 /\ op' = "pop" => ret' = 0)
            /\ (op = "pop" /\ ret = 0 /\ op' = "push" => ret' = 0)
            /\ (op = "pop" /\ ret = -1 /\ op' = "push" => ret' = 0)
            /\ (op = "push" /\ ret = 0 /\ op' = "pop" =>
                    /\ ret' = 0
                    /\ (Live(buffer) /\ Count = 1 =>
                            data' = pushed[Len(pushed)]))]_vars

\* a push has succeeded right after the pop that took one byte out of a full
\* buffer of capacity >= 3
C12_Witness ==
    /\ Ready /\ maxlen >= 3 /\ Live(buffer)
    /\ op = "push" /\ ret = 0
    /\ run = 1 /\ ~runEmpty
    /\ Count = maxlen - 1
    /\ Len(popped) >= 1

\* C14 -- frame of a successful push: it stores the byte at storage[old
\* head], moves head to (old head + 1) % maxlen, and leaves buffer, tail,
\* maxlen and every other slot as they were.
C14_PushFrame ==
    [][(Ready /\ maxlen >= 1 /\ Live(buffer) /\ op' = "push" /\ ret' = 0) =>
            /\ head \in DOMAIN storage
            /\ storage'[head] = pushed'[Len(pushed')]
            /\ \A i \in DOMAIN storage : i # head => storage'[i] = storage[i]
            /\ DOMAIN storage' = DOMAIN storage
            /\ head' = (head + 1) % maxlen
            /\ UNCHANGED <<buffer, tail, maxlen>>]_vars

\* a push into the last slot has wrapped head to 0 while two earlier bytes
\* are still stored
C14_Witness ==
    /\ Ready /\ maxlen >= 3 /\ Live(buffer)
    /\ op = "push" /\ ret = 0
    /\ head = 0 /\ Count >= 3
    /\ storage[maxlen - 1] = pushed[Len(pushed)]

\* C15 -- frame of a successful pop: it copies storage[old tail] to the
\* caller's byte, moves tail to (old tail + 1) % maxlen, and leaves buffer,
\* head, maxlen and every slot, the popped one included, as they were.
C15_PopFrame ==
    [][(Ready /\ maxlen >= 1 /\ Live(buffer) /\ op' = "pop" /\ ret' = 0) =>
            /\ tail \in DOMAIN storage
            /\ data' = storage[tail]
            /\ tail' = (tail + 1) % maxlen
            /\ UNCHANGED <<buffer, head, maxlen, storage>>]_vars

\* a pop of the last slot has wrapped tail to 0 and the slot still holds the
\* byte that was popped
C15_Witness ==
    /\ Ready /\ maxlen >= 3 /\ Live(buffer)
    /\ op = "pop" /\ ret = 0
    /\ tail = 0 /\ Len(popped) >= maxlen
    /\ storage[maxlen - 1] = data
    /\ data = popped[Len(popped)]

\* C17 -- re-initialization after release: rb_init(C) on a Released instance
\* whose malloc succeeds leaves head = 0, tail = 0, maxlen = C, a live region
\* of C unwritten bytes and no element stored, whatever happened before the
\* release; and in every Ready state a slot holds nothing but a byte pushed
\* since that rb_init.
C17_FreshAfterRelease ==
    /\ [][(phase = "Released" /\ ~fault /\ op' = "init" /\ buffer' # NULL) =>
            /\ head' = 0 /\ tail' = 0
            /\ maxlen' \in Sizes
            /\ Live(buffer)' /\ buffer' \notin Range(frees)
            /\ storage' = [i \in 0..(maxlen' - 1) |-> Undef]
            /\ pushed' = <<>> /\ popped' = <<>>]_vars
    /\ []((Ready /\ Live(buffer)) =>
            /\ DOMAIN storage = 0..(maxlen - 1)
            /\ \A i \in DOMAIN storage :
                  storage[i] = Undef \/ storage[i] \in Range(pushed))

\* a buffer initialised again after a release that followed pushes and pops
\* has accepted and yielded a byte
C17_Witness ==
    /\ Ready /\ Live(buffer) /\ maxlen >= 2
    /\ Len(frees) = 1 /\ nalloc = 2 /\ buffer = 2
    /\ op = "pop" /\ ret = 0
    /\ popped = pushed /\ Len(pushed) = 1

\* C19 -- zero capacity: with maxlen = 0 and head = tail = 0 (after
\* rb_init(0) or rb_clean) every push and every pop returns -1, touches no
\* storage and changes no field and not the caller's byte.
C19_ZeroCapacity ==
    [][(phase # "Uninit" /\ maxlen = 0 /\ head = 0 /\ tail = 0
        /\ op' \in {"push", "pop"}) =>
            /\ ret' = -1
            /\ ~fault'
            /\ UNCHANGED <<buffer, head, tail, maxlen, storage, data,
                           pushed, popped>>]_vars

\* a pop has returned -1 on a released instance
C19_Witness ==
    /\ phase = "Released" /\ maxlen = 0 /\ buffer = NULL
    /\ op = "pop" /\ ret = -1
    /\ Len(frees) = 1

\* C20 -- storage accesses are backed by a live allocation: once rb_init or
\* rb_clean has run, maxlen > 0 implies that buffer points to a live region
\* of exactly maxlen bytes, and no push or pop accesses anything else.
C20_StorageBacked ==
    phase # "Uninit" =>
        /\ (maxlen > 0 =>
                Live(buffer) /\ DOMAIN storage = 0..(maxlen - 1))
        /\ (op \in {"push", "pop"} => ~fault)

\* C16 -- draining terminates: a loop that pops until rb_pop returns -1,
\* entered in a Ready state holding n bytes, makes exactly n successful pops,
\* then gets -1, and always gets there.
C16_DrainTerminates ==
    /\ [](loop.mode = "drain" => loop.pops <= loop.n /\ Count = loop.n - loop.pops)
    /\ [](loop.mode = "done" =>
            loop.pops = loop.n /\ op = "pop" /\ ret = -1 /\ head = tail)
    /\ ((loop.mode = "drain") ~> (loop.mode = "done"))

\* a loop entered on a full buffer whose head had wrapped below tail has
\* ended after maxlen - 1 pops
C16_Witness ==
    /\ loop.mode = "done"
    /\ Ready /\ maxlen >= 3 /\ Live(buffer)
    /\ loop.n = maxlen - 1 /\ loop.pops = loop.n
    /\ Len(pushed) > maxlen
    /\ op = "pop" /\ ret = -1

\* C13 -- two rb_push calls interleaved without mutual exclusion race: a
\* call that returns 0 adds a stored byte exactly when c->head was not
\* changed between its read (line 7) and its write (line 13); otherwise its
\* write of c->head adds none, so the cursors account for fewer bytes than
\* were accepted, which no sequence of whole calls produces (C6).
C13_LostUpdate ==
    /\ [](1 <= maxlen /\ CursorCount <= Len(pushed))
    /\ [][\A t \in Threads :
            (thr[t].pc = "p13" /\ thr'[t].pc = "idle") =>
                /\ (head = thr[t].h <=> CursorCount' = CursorCount + 1)
                /\ (head # thr[t].h => CursorCount' <= CursorCount)]_vars

\* both calls returned 0 on an empty buffer of capacity >= 3, both stored in
\* slot 0, head advanced once: one of the two different bytes is gone
C13_Witness ==
    /\ maxlen >= 3
    /\ thr[1].pc = "idle" /\ thr[1].ret = 0
    /\ thr[2].pc = "idle" /\ thr[2].ret = 0
    /\ Len(pushed) = 2 /\ pushed[1] # pushed[2]
    /\ thr[1].idx = 0 /\ thr[2].idx = 0
    /\ head = 1 /\ tail = 0
    /\ CursorCount < Len(pushed)
    /\ ~fault

\* C18 -- one producer and one consumer (capacity C >= 2), interleaved one
\* memory access at a time: the pops yield the bytes in push order, every
\* accepted byte not yet popped is still in its slot, a pop loads only a
\* slot the producer has written and published, no access leaves the
\* region, and head and tail stay in 0..C-1.
C18_SpscSafe ==
    /\ maxlen >= 2
    /\ head \in 0..(maxlen - 1)
    /\ tail \in 0..(maxlen - 1)
    /\ ~fault
    /\ IsPrefix(popped, pushed)
    /\ CursorCount = Count
    /\ \A i \in 1..Count :
          storage[(tail + i - 1) % maxlen] = pushed[Len(popped) + i]
    /\ (thr[2].pc = "c27" =>
            /\ ~thr[2].stale
            /\ Len(popped) < Len(pushed)
            /\ data = pushed[Len(popped) + 1])

\* the consumer has loaded a byte and the producer has stored one, neither
\* has written its cursor yet, and head has wrapped below tail
C18_Witness ==
    /\ thr[1].pc = "p13"
    /\ thr[2].pc = "c27"
    /\ head < tail
    /\ Len(popped) >= 2
    /\ thr[1].idx # thr[2].idx

====
